---- MODULE Spec2Model ----
(***************************************************************************)
(* gdrs-parse (src/gdrs-parse/src/main.rs): the walk over a clang          *)
(* declaration tree (parse_namespace, parse_class, parse_enum,             *)
(* parse_alias, parse_function), the type resolver (parse_type), the       *)
(* constant evaluator (parse_value), the merger (merge_namespace) and the  *)
(* driver loop of main.                                                    *)
(*                                                                         *)
(* The clang AST is the input.  A clang::Type and a clang::Entity are      *)
(* records holding what the code asks of them (get_kind, get_name,         *)
(* get_pointee_type, get_children, evaluate, ...).  Every function of the  *)
(* program is an operator that returns its value together with the lines   *)
(* it wrote to stderr and whether it panicked (an unwrap() of None / Err   *)
(* or unreachable!()).                                                     *)
(***************************************************************************)
EXTENDS Integers, Sequences, FiniteSets, TLC

VARIABLES
    pc,       \* where the program is
    ty_in,    \* the clang::Type handed to parse_type               (SpecType)
    ty_out,   \* what parse_type returned for it                    (SpecType)
    scope,    \* the Namespace or Class a walk is filling           (SpecWalk)
    last,     \* the step just taken: its input, the state before it
    stderr,   \* the lines written to stderr so far
    tus,      \* main's tus: the per-file Namespaces                (Spec)
    api,      \* main's api: the unified root Namespace             (Spec)
    merged    \* how many of tus main has merged into api           (Spec)

vars == <<pc, ty_in, ty_out, scope, last, stderr, tus, api, merged>>

----------------------------------------------------------------------------
(* Bounds *)

\* wrapper levels (pointer, reference, array, elaborated) around a base type
MaxDepth == 3
\* children parse_namespace visits in the walker specification
MaxChildren == 2
\* input files main parses
MaxFiles == 2

----------------------------------------------------------------------------
(* Small helpers *)

RECURSIVE Concat(_)
Concat(ss) == IF ss = <<>> THEN <<>> ELSE Head(ss) \o Concat(Tail(ss))

\* Some(x) / None of an Option: a sequence of length 1 / 0
Some(x) == <<x>>
None == <<>>
NoName == "<none>"

----------------------------------------------------------------------------
(* clang::Type, as far as parse_type reads it *)

TranslationUnit == [kind |-> "TranslationUnit", name |-> NoName]
NoDecl == [name |-> NoName, parents |-> <<>>]

\* get_kind, is_const_qualified, get_pointee_type / get_element_type /
\* get_elaborated_type (inner), get_size, get_declaration with its chain of
\* semantic parents (innermost first), get_template_argument_types
Ty(kind, is_const) ==
    [kind |-> kind, is_const |-> is_const, inner |-> None, size |-> 0,
     decl |-> NoDecl, targs |-> None]

Wrap(kind, is_const, t) == [Ty(kind, is_const) EXCEPT !.inner = Some(t)]
ArrayTy(size, t) == [Ty("ConstantArray", FALSE) EXCEPT !.inner = Some(t), !.size = size]
DeclTy(kind, is_const, name, parents) ==
    [Ty(kind, is_const) EXCEPT !.decl = [name |-> name, parents |-> parents]]
\* a record type that is a template specialisation; targs is a sequence of
\* Option<Type> (None for a non-type template argument)
TemplTy(name, parents, targs) ==
    [DeclTy("Record", FALSE, name, parents) EXCEPT !.targs = Some(targs)]

----------------------------------------------------------------------------
(* gdrs_api::TypeRef *)

TypeName(tag) == [tag |-> tag, path |-> <<>>, params |-> <<>>]
Semantic(tag) == [tag |-> tag, size |-> 0]
TypeRef(name, semantic, is_const) ==
    [name |-> name, semantic |-> semantic, is_const |-> is_const]
NoTypeRef == TypeRef(TypeName("<none>"), Semantic("<none>"), FALSE)

\* Result<TypeRef, ParseError>, the lines written to stderr on the way, and
\* whether an unwrap() panicked
OkT(t, diags) == [tag |-> "Ok", ty |-> t, err |-> "", diags |-> diags]
ErrT(e, diags) == [tag |-> "Err", ty |-> NoTypeRef, err |-> e, diags |-> diags]
PanicT(diags) == [tag |-> "Panic", ty |-> NoTypeRef, err |-> "", diags |-> diags]

\* main.rs:496-509, the primitive kinds
PrimitiveKinds ==
    {"Bool", "CharS", "SChar", "CharU", "UChar", "WChar", "Short", "UShort",
     "Int", "UInt", "Long", "ULong", "LongLong", "ULongLong", "Float", "Double"}

PrimitiveName(k) ==
    CASE k \in {"CharS", "SChar"} -> "Char"
      [] k \in {"CharU", "UChar"} -> "UChar"
      [] OTHER -> k

\* t.get_elaborated_type().unwrap_or(t)
Elaborated(t) == IF t.kind = "Elaborated" THEN t.inner[1] ELSE t

\* t.get_pointee_type().map(|t| t.get_elaborated_type().unwrap_or(t)).unwrap()
Pointee(t) == Elaborated(t.inner[1])

\* the second level is not unwrapped
IndirectionOneLevel(p, one, two, size) ==
    [t |-> p, semantic |-> [tag |-> one, size |-> size]]

\* main.rs:458-464 (and 467-473, 477-483): p is the pointee; a pointee that
\* is a pointer is unwrapped once more
Indirection(p, one, two, size) ==
    IF p.kind = "Pointer"
    THEN [t |-> Pointee(p), semantic |-> [tag |-> two, size |-> size]]
    ELSE [t |-> p, semantic |-> [tag |-> one, size |-> size]]

\* main.rs:456-486: the type left after unwrapping and the semantic
Unwrap(t) ==
    CASE t.kind = "Pointer" -> Indirection(Pointee(t), "Pointer", "PointerToPointer", 0)
      [] t.kind = "LValueReference" ->
            Indirection(Pointee(t), "Reference", "ReferenceToPointer", 0)
      [] t.kind = "ConstantArray" -> Indirection(Pointee(t), "Array", "ArrayOfPointer", t.size)
      [] OTHER -> [t |-> t, semantic |-> Semantic("Value")]

\* main.rs:454-486
Qualifier(t0) == Unwrap(Elaborated(t0))

\* main.rs:517-530: the loop over the semantic parents; path is name_path
RECURSIVE NamePath(_, _)
NamePath(parents, path) ==
    IF parents = <<>> THEN [anon |-> FALSE, path |-> path]
    ELSE IF Head(parents).kind \in {"Namespace", "ClassDecl"}
    THEN IF Head(parents).name # NoName
         THEN NamePath(Tail(parents), <<Head(parents).name>> \o path)
         ELSE [anon |-> TRUE, path |-> path]
    ELSE [anon |-> FALSE, path |-> path]

\* iter().position(|p| p.is_err()), 1-based, 0 for None
FirstErr(rs) ==
    IF \E i \in DOMAIN rs : rs[i].tag = "Err"
    THEN CHOOSE i \in DOMAIN rs : rs[i].tag = "Err" /\ \A j \in 1..(i-1) : rs[j].tag # "Err"
    ELSE 0

RECURSIVE parse_type(_), ParseTypes(_)

NoTypes == [panic |-> FALSE, rs |-> <<>>, diags |-> <<>>]
TypesPanic(diags) == [panic |-> TRUE, rs |-> <<>>, diags |-> diags]
ConsTypes(r, rest) ==
    [panic |-> rest.panic, rs |-> <<r>> \o rest.rs, diags |-> r.diags \o rest.diags]
ConsType(r, tl) == IF r.tag = "Panic" THEN TypesPanic(r.diags) ELSE ConsTypes(r, ParseTypes(tl))

\* main.rs:537: vp.into_iter().map(|p| parse_type(p.unwrap())).collect():
\* every argument is resolved, in order; a None argument panics there
ParseTypes(targs) ==
    IF targs = <<>> THEN NoTypes
    ELSE IF Head(targs) = None THEN TypesPanic(<<>>)
    ELSE ConsType(parse_type(Head(targs)[1]), Tail(targs))

OkRef(name, semantic, t, diags) == OkT(TypeRef(name, semantic, t.is_const), diags)

\* main.rs:538-551: ps are the resolved template arguments, i the first error
TemplateArgs(t, semantic, path, ps, i) ==
    IF i # 0
    THEN IF ps.rs[i].err = "Unsupported"
         THEN ErrT("Unsupported", ps.diags \o <<"Unsupported template param type">>)
         ELSE ErrT("Ignored", ps.diags)
    ELSE OkRef([tag |-> "Class", path |-> path,
                params |-> [j \in DOMAIN ps.rs |-> ps.rs[j].ty]], semantic, t, ps.diags)

\* main.rs:537
Template(t, semantic, path, ps) ==
    IF ps.panic THEN PanicT(ps.diags) ELSE TemplateArgs(t, semantic, path, ps, FirstErr(ps.rs))

\* main.rs:521-557: np is what the loop over the parents gave
Declared(t, semantic, np) ==
    IF np.anon THEN ErrT("Ignored", <<"Unsupported anonymous namespace">>)
    ELSE IF t.kind \in {"Enum", "Typedef"}
    THEN OkRef([tag |-> "TypeName", path |-> np.path, params |-> <<>>], semantic, t, <<>>)
    ELSE IF t.targs = None
    THEN OkRef([tag |-> "Class", path |-> np.path, params |-> <<>>], semantic, t, <<>>)
    ELSE Template(t, semantic, np.path, ParseTypes(t.targs[1]))

\* main.rs:488-567: the TypeRef of the unwrapped type t
Named(t, semantic) ==
    CASE t.kind \in {"Auto", "Unexposed", "BlockPointer", "MemberPointer"} ->
            ErrT("Ignored", <<>>)
      [] t.kind \in PrimitiveKinds -> OkRef(TypeName(PrimitiveName(t.kind)), semantic, t, <<>>)
      [] t.kind = "Void" /\ semantic # Semantic("Value") ->
            OkRef(TypeName("Void"), semantic, t, <<>>)
      [] t.kind \in {"Enum", "Typedef", "Record"} ->
            IF t.decl.name = NoName THEN PanicT(<<>>)
            ELSE Declared(t, semantic, NamePath(t.decl.parents, <<t.decl.name>>))
      [] OTHER -> ErrT("Unsupported", <<"Unsupported type kind">>)

Resolve(q) == Named(q.t, q.semantic)

\* main.rs:453-568
parse_type(t0) == Resolve(Qualifier(t0))

----------------------------------------------------------------------------
(* The types the resolver is run on *)

Global == <<TranslationUnit>>
InN == <<[kind |-> "Namespace", name |-> "N"], TranslationUnit>>
InAnon == <<[kind |-> "Namespace", name |-> NoName], TranslationUnit>>
InClassInAnon ==
    <<[kind |-> "ClassDecl", name |-> "C"], [kind |-> "Namespace", name |-> NoName],
      TranslationUnit>>
InFunction == <<[kind |-> "FunctionDecl", name |-> "f"], TranslationUnit>>

TemplateTypes ==
    {TemplTy("Vector", Global, <<Some(Ty("Int", FALSE))>>),
     TemplTy("Vector", Global, <<Some(Wrap("Pointer", FALSE, Ty("Int", TRUE)))>>),
     TemplTy("Vector", Global, <<Some(Ty("FunctionProto", FALSE))>>),
     TemplTy("Vector", Global, <<Some(Ty("Auto", FALSE))>>),
     TemplTy("Vector", Global, <<Some(DeclTy("Record", FALSE, "Hidden", InAnon))>>),
     TemplTy("Map", InN, <<Some(Ty("Unexposed", FALSE)), Some(Ty("Vector", FALSE))>>),
     TemplTy("Map", InN, <<Some(Ty("Vector", FALSE)), Some(Ty("Unexposed", FALSE))>>),
     TemplTy("Array", Global, <<Some(Ty("Int", FALSE)), None>>),
     TemplTy("Hidden", InAnon, <<Some(Ty("Vector", FALSE))>>)}

BaseTypes ==
    {Ty(k, c) : k \in PrimitiveKinds \cup
                      {"Void", "Auto", "Unexposed", "BlockPointer", "MemberPointer",
                       "FunctionProto", "Int128", "Vector"},
                c \in BOOLEAN}
    \cup {DeclTy(k, c, "Foo", p) : k \in {"Enum", "Typedef", "Record"}, c \in BOOLEAN,
                                   p \in {Global, InN, InAnon}}
    \cup {DeclTy("Record", FALSE, "Local", InFunction),
          DeclTy("Enum", FALSE, "E", InClassInAnon),
          DeclTy("Record", FALSE, NoName, Global)}
    \cup TemplateTypes

\* clang wraps only a named type (struct Foo, N::Foo) in an elaborated type
Wrappers(t) ==
    {Wrap("Pointer", FALSE, t), Wrap("Pointer", TRUE, t), Wrap("LValueReference", FALSE, t),
     ArrayTy(4, t)}
    \cup (IF t.kind \in {"Enum", "Typedef", "Record"}
          THEN {Wrap("Elaborated", FALSE, t)} ELSE {})

RECURSIVE TypesUpTo(_)
TypesUpTo(d) ==
    IF d = 0 THEN BaseTypes
    ELSE LET S == TypesUpTo(d - 1) IN S \cup UNION {Wrappers(t) : t \in S}

Types == TypesUpTo(MaxDepth)

\* the number of pointer levels at the top of a type, through elaboration
RECURSIVE PointerLevels(_)
PointerLevels(t) ==
    IF t.kind = "Elaborated" THEN PointerLevels(t.inner[1])
    ELSE IF t.kind = "Pointer" THEN 1 + PointerLevels(t.inner[1])
    ELSE 0

\* the type under the pointers
RECURSIVE PointerBase(_)
PointerBase(t) ==
    IF t.kind \in {"Elaborated", "Pointer"} THEN PointerBase(t.inner[1]) ELSE t

----------------------------------------------------------------------------
(* clang::Entity, as far as the walker reads it *)

\* expansion location of a declaration: the file's extension and whether a
\* path component is "thirdparty"
Header == [str |-> "core/a.h", ext |-> "h", thirdparty |-> FALSE]
CppFile == [str |-> "core/a.cpp", ext |-> "cpp", thirdparty |-> FALSE]
Vendored == [str |-> "thirdparty/x/b.h", ext |-> "h", thirdparty |-> TRUE]

\* Option<EvaluationResult> of Entity::evaluate
NoEval == [tag |-> "None", val |-> 0]
EvInteger(i) == [tag |-> "Integer", val |-> i]
EvFloat(d) == [tag |-> "Float", val |-> d]
EvString(s) == [tag |-> "String", val |-> s]
EvOther == [tag |-> "Unexposed", val |-> 0]

\* get_kind, get_name, get_type, the children in declaration order,
\* is_in_system_header, get_location, get_storage_class, get_accessibility,
\* evaluate, get_arguments, get_type().get_result_type(), is_virtual_method,
\* is_static_method, is_const_method, get_enum_underlying_type /
\* get_typedef_underlying_type, get_enum_constant_value
Entity(kind, name) ==
    [kind |-> kind, name |-> name, ty |-> Ty("Invalid", FALSE), children |-> <<>>,
     sys |-> FALSE, loc |-> Header, storage |-> "None", access |-> "Public",
     eval |-> NoEval, args |-> None, result |-> Ty("Void", FALSE),
     virtual |-> FALSE, static |-> FALSE, const_method |-> FALSE,
     underlying |-> Ty("Invalid", FALSE), value |-> 0]

----------------------------------------------------------------------------
(* gdrs_api values *)

\* Value::Int(i) and Value::UInt(i as u64) hold the same 64 bits; bits is the
\* i64 with that bit pattern
Value(tag, bits) == [tag |-> tag, bits |-> bits]

Namespace(name) ==
    [name |-> name, consts |-> <<>>, globals |-> <<>>, enums |-> <<>>, aliases |-> <<>>,
     classes |-> <<>>, functions |-> <<>>, namespaces |-> <<>>]

Class(name) ==
    [include |-> "", name |-> name, consts |-> <<>>, enums |-> <<>>, aliases |-> <<>>,
     fields |-> <<>>, methods |-> <<>>]

\* what a step of a walk gives: the scope built so far, the lines written to
\* stderr, whether it panicked
Step(sc, diags) == [scope |-> sc, diags |-> diags, panic |-> FALSE]
Panic(sc, diags) == [scope |-> sc, diags |-> diags, panic |-> TRUE]

\* an Option result with the lines written and whether it panicked
Opt(v, diags) == [v |-> v, diags |-> diags, panic |-> FALSE]
OptPanic(diags) == [v |-> None, diags |-> diags, panic |-> TRUE]

----------------------------------------------------------------------------
(* parse_value, main.rs:572-604 *)

UnsignedKinds == {"CharU", "UChar", "UShort", "UInt", "ULong", "ULongLong", "Bool"}
SignedKinds == {"CharS", "SChar", "WChar", "Short", "Int", "Long", "LongLong"}

\* main.rs:574-600
Evaluated(kind, val) ==
    CASE val.tag = "Integer" /\ kind \in UnsignedKinds -> Opt(Some(Value("UInt", val.val)), <<>>)
      [] val.tag = "Integer" /\ kind \in SignedKinds -> Opt(Some(Value("Int", val.val)), <<>>)
      [] val.tag = "Float" /\ kind = "Float" -> Opt(Some(Value("Float", val.val)), <<>>)
      [] val.tag = "Float" /\ kind = "Double" -> Opt(Some(Value("Double", val.val)), <<>>)
      [] val.tag = "String" -> Opt(Some(Value("String", val.val)), <<>>)
      [] OTHER -> Opt(None, <<"Unsupported evaluation result">>)

parse_value(exp) ==
    IF exp.ty.kind = "Invalid" \/ exp.eval.tag = "None" THEN Opt(None, <<>>)
    ELSE Evaluated(exp.ty.kind, exp.eval)

\* c.get_child(0).and_then(|exp| parse_value(exp))
ChildValue(c) == IF c.children = <<>> THEN Opt(None, <<>>) ELSE parse_value(c.children[1])

----------------------------------------------------------------------------
(* parse_enum, main.rs:274-298 *)

SignedNames == {"Char", "Short", "Int", "Long", "LongLong"}
UnsignedNames == {"UChar", "UShort", "UInt", "ULong", "ULongLong"}

\* main.rs:276-297: u is the resolved underlying type
EnumOf(e, u) ==
    IF u.tag # "Ok" THEN OptPanic(u.diags)
    ELSE IF e.children # <<>> /\ u.ty.name.tag \notin SignedNames \cup UnsignedNames
    THEN OptPanic(u.diags)
    ELSE Opt(Some([name |-> IF e.name = NoName THEN "const" ELSE e.name,
                   underlying |-> u.ty,
                   variants |-> [i \in DOMAIN e.children |->
                       [name |-> e.children[i].name,
                        value |-> Value(IF u.ty.name.tag \in SignedNames THEN "Int" ELSE "UInt",
                                        e.children[i].value)]]]),
             u.diags)

parse_enum(e) == EnumOf(e, parse_type(e.underlying))

\* the variants taken from the last to the first
VariantConstsReversed(en) ==
    [i \in DOMAIN en.variants |->
        [ty |-> en.underlying, name |-> en.variants[Len(en.variants) + 1 - i].name,
         value |-> en.variants[Len(en.variants) + 1 - i].value]]

\* main.rs:181-188 and 339-346: one Const per variant of an enum named "const"
VariantConsts(en) ==
    [i \in DOMAIN en.variants |->
        [ty |-> en.underlying, name |-> en.variants[i].name, value |-> en.variants[i].value]]

\* main.rs:180-191 and 338-349: en is what parse_enum gave
AddEnum(sc, en) ==
    IF en.panic THEN Panic(sc, en.diags)
    ELSE IF en.v[1].name = "const"
    THEN Step([sc EXCEPT !.consts = @ \o VariantConsts(en.v[1])], en.diags)
    ELSE Step([sc EXCEPT !.enums = Append(@, en.v[1])], en.diags)

----------------------------------------------------------------------------
(* parse_alias, main.rs:302-314 *)

AliasOf(e, r) ==
    CASE r.tag = "Panic" -> OptPanic(r.diags)
      [] r.tag = "Ok" -> Opt(Some([name |-> e.name, ty |-> r.ty]), r.diags)
      [] r.err = "Unsupported" -> Opt(None, r.diags \o <<"Unsupported type alias">>)
      [] OTHER -> Opt(None, r.diags)

parse_alias(e) == AliasOf(e, parse_type(e.underlying))

\* main.rs:194-196 and 352-354: al is what parse_alias gave
AddAlias(sc, al) ==
    IF al.panic THEN Panic(sc, al.diags)
    ELSE IF al.v = None THEN Step(sc, al.diags)
    ELSE Step([sc EXCEPT !.aliases = Append(@, al.v[1])], al.diags)

----------------------------------------------------------------------------
(* parse_function, main.rs:399-449 *)

\* main.rs:407-408: parse_type of every parameter, in declaration order
RECURSIVE ParamTypes(_)
ConsParam(r, tl) == IF r.tag = "Panic" THEN TypesPanic(r.diags) ELSE ConsTypes(r, ParamTypes(tl))
ParamTypes(ps) == IF ps = <<>> THEN NoTypes ELSE ConsParam(parse_type(Head(ps).ty), Tail(ps))

\* main.rs:418-422: the Params, each with its default evaluated
Params(ps, rs) ==
    [i \in DOMAIN ps |->
        [ty |-> rs[i].ty,
         name |-> IF ps[i].name = NoName THEN "" ELSE ps[i].name,
         default |-> ChildValue(ps[i]).v]]

ParamDiags(ps) == Concat([i \in DOMAIN ps |-> ChildValue(ps[i]).diags])

\* main.rs:437-445
FunctionSemantic(e) ==
    IF e.virtual THEN "Virtual"
    ELSE IF e.static THEN "Static"
    ELSE IF e.kind = "Method" THEN "Method"
    ELSE "Free"

\* main.rs:403-448, once the parameters and the return type are there
Function(e, params, ret) ==
    [name |-> e.name, params |-> params, return_ty |-> ret,
     semantic |-> FunctionSemantic(e),
     access |-> IF e.access = "Protected" THEN "Protected" ELSE "Public",
     is_const |-> e.const_method]

\* the warning is written whatever the error
ParamWarningAlways(err) == <<"Unsupported param">>

\* main.rs:412-414: the line written for the first parameter that failed
ParamWarning(err) == IF err = "Unsupported" THEN <<"Unsupported param">> ELSE <<>>

\* main.rs:428-435: r is the resolved return type
Returning(e, params, diags, r) ==
    CASE r.tag = "Panic" -> OptPanic(diags \o r.diags)
      [] r.tag = "Ok" -> Opt(Some(Function(e, params, Some(r.ty))), diags \o r.diags)
      [] r.err = "Unsupported" -> Opt(None, diags \o r.diags \o <<"Unsupported return">>)
      [] OTHER -> Opt(None, diags \o r.diags)

\* main.rs:427
ReturnTy(e, params, diags) ==
    IF e.result.kind = "Void" THEN Opt(Some(Function(e, params, None)), diags)
    ELSE Returning(e, params, diags, parse_type(e.result))

\* main.rs:410-422: pt are the resolved parameter types, i the first error
Signature(e, ps, pt, i) ==
    IF pt.panic THEN OptPanic(pt.diags)
    ELSE IF i # 0 THEN Opt(None, pt.diags \o ParamWarning(pt.rs[i].err))
    ELSE ReturnTy(e, Params(ps, pt.rs), pt.diags \o ParamDiags(ps))

WithParams(e, ps, pt) == Signature(e, ps, pt, FirstErr(pt.rs))

\* main.rs:406 and 424: no arguments gives no Params
Arguments(e) == IF e.args = None THEN <<>> ELSE e.args[1]

parse_function(e) == WithParams(e, Arguments(e), ParamTypes(Arguments(e)))

\* main.rs:204-206 and 384-386: f is what parse_function gave
AddFunction(sc, f, list) ==
    IF f.panic THEN Panic(sc, f.diags)
    ELSE IF f.v = None THEN Step(sc, f.diags)
    ELSE Step([sc EXCEPT ![list] = Append(@, f.v[1])], f.diags)

----------------------------------------------------------------------------
(* the Const of a const-qualified variable, main.rs:157-164 and 357-364 *)

\* .or_else(|_| parse_type(c.get_child(0).unwrap().get_type().unwrap())).unwrap()
Fallback(r1, r2) ==
    IF r2.tag = "Ok" THEN OkT(r2.ty, r1.diags \o r2.diags) ELSE PanicT(r1.diags \o r2.diags)

OrElse(c, r1) == IF r1.tag # "Err" THEN r1 ELSE Fallback(r1, parse_type(c.children[1].ty))

\* parse_type(c.get_type().unwrap()).or_else(...).unwrap()
ConstType(c) == OrElse(c, parse_type(c.ty))

\* main.rs:159-163: val is the Value, t the type
PushConst(sc, c, val, t) ==
    IF t.tag = "Panic" THEN Panic(sc, val.diags \o t.diags)
    ELSE Step([sc EXCEPT !.consts = Append(@, [ty |-> t.ty, name |-> c.name, value |-> val.v[1]])],
              val.diags \o t.diags)

\* main.rs:158: val is what parse_value gave for child 0
WithValue(sc, c, val) ==
    IF val.v = None THEN Step(sc, val.diags) ELSE PushConst(sc, c, val, ConstType(c))

ConstVar(sc, c) == WithValue(sc, c, ChildValue(c))

----------------------------------------------------------------------------
(* parse_class, main.rs:318-395 *)

\* main.rs:366-380: r is the resolved type of the field
AddField(class, c, r) ==
    CASE r.tag = "Panic" -> Panic(class, r.diags)
      [] r.tag = "Ok" ->
            Step([class EXCEPT !.fields = Append(@,
                    [access |-> IF c.access = "Protected" THEN "Protected" ELSE "Public",
                     is_static |-> c.storage = "Static",
                     name |-> c.name,
                     ty |-> r.ty])], r.diags)
      [] r.err = "Unsupported" -> Step(class, r.diags \o <<"Unsupported field">>)
      [] OTHER -> Step(class, r.diags)

\* the closure of main.rs:329-392 on one child
VisitMember(class, c) ==
    IF c.access = "None" THEN Panic(class, <<>>)
    ELSE IF c.access = "Private" THEN Step(class, <<>>)
    ELSE
    CASE c.kind = "EnumDecl" -> AddEnum(class, parse_enum(c))
      [] c.kind \in {"TypeAliasDecl", "TypedefDecl"} -> AddAlias(class, parse_alias(c))
      [] c.kind \in {"FieldDecl", "VarDecl"} ->
            IF c.ty.is_const THEN ConstVar(class, c) ELSE AddField(class, c, parse_type(c.ty))
      [] c.kind = "Method" -> AddFunction(class, parse_function(c), "methods")
      [] OTHER -> Step(class, <<>>)

\* visit_children: the closure on each child in order, until one panics
RECURSIVE VisitMembers(_, _, _)
NextMember(r, cs, diags) ==
    IF r.panic THEN Panic(r.scope, diags \o r.diags)
    ELSE VisitMembers(r.scope, cs, diags \o r.diags)

VisitMembers(class, cs, diags) ==
    IF cs = <<>> THEN Step(class, diags)
    ELSE NextMember(VisitMember(class, Head(cs)), Tail(cs), diags)

\* e.get_name().unwrap() panics on an unnamed class
parse_class(e) ==
    IF e.name = NoName THEN Panic(Class(NoName), <<>>)
    ELSE VisitMembers(Class(e.name), e.children, <<>>)

----------------------------------------------------------------------------
(* merge_namespace, main.rs:229-270 *)

HasName(ds, name) == \E i \in DOMAIN ds : ds[i].name = name

\* every source entry is pushed
MergeByNameAppend(ds, ss) == ds \o ss

\* a source entry takes the place of the entry of dst that has its name
RECURSIVE MergeByNameLastWins(_, _)
MergeByNameLastWins(ds, ss) ==
    IF ss = <<>> THEN ds
    ELSE MergeByNameLastWins(
            IF HasName(ds, Head(ss).name)
            THEN [i \in DOMAIN ds |-> IF ds[i].name = Head(ss).name THEN Head(ss) ELSE ds[i]]
            ELSE Append(ds, Head(ss)),
            Tail(ss))

\* one of the six loops of main.rs:232-261: push a source entry unless an
\* entry of dst has its name
RECURSIVE MergeByName(_, _)
MergeByName(ds, ss) ==
    IF ss = <<>> THEN ds
    ELSE MergeByName(IF HasName(ds, Head(ss).name) THEN ds ELSE Append(ds, Head(ss)),
                     Tail(ss))

\* iter_mut().find(|dn| dn.name == name): the first one
Find(ds, name) == CHOOSE i \in DOMAIN ds : ds[i].name = name /\ \A j \in 1..(i-1) : ds[j].name # name

RECURSIVE merge_namespace(_, _), MergeNamespaces(_, _)

\* sn is pushed whether or not a namespace has its name
MergeIntoAppend(dns, sn) == Append(dns, sn)

\* main.rs:263-268, and 210-215: sn goes into the namespace of its name, or
\* is pushed
MergeInto(dns, sn) ==
    IF HasName(dns, sn.name)
    THEN [dns EXCEPT ![Find(dns, sn.name)] = merge_namespace(@, sn)]
    ELSE Append(dns, sn)

\* main.rs:262-269
MergeNamespaces(dns, sns) ==
    IF sns = <<>> THEN dns ELSE MergeNamespaces(MergeInto(dns, Head(sns)), Tail(sns))

merge_namespace(dst, src) ==
    [name |-> dst.name,
     consts |-> MergeByName(dst.consts, src.consts),
     globals |-> MergeByName(dst.globals, src.globals),
     enums |-> MergeByName(dst.enums, src.enums),
     aliases |-> MergeByName(dst.aliases, src.aliases),
     classes |-> MergeByName(dst.classes, src.classes),
     functions |-> MergeByName(dst.functions, src.functions),
     namespaces |-> MergeNamespaces(dst.namespaces, src.namespaces)]

----------------------------------------------------------------------------
(* parse_namespace, main.rs:129-225 *)

\* main.rs:147-153
Filtered(c) == c.sys \/ c.loc.ext = "cpp" \/ c.loc.thirdparty

\* main.rs:166-175: r is the resolved type of the extern variable
AddGlobal(n, c, r) ==
    CASE r.tag = "Panic" -> Panic(n, r.diags)
      [] r.tag = "Ok" ->
            Step([n EXCEPT !.globals = Append(@, [ty |-> r.ty, name |-> c.name])], r.diags)
      [] r.err = "Unsupported" -> Step(n, r.diags \o <<"Unsupported extern global">>)
      [] OTHER -> Step(n, r.diags)

\* main.rs:199-201: cl is what parse_class gave
AddClass(n, c, cl) ==
    IF cl.panic THEN Panic(n, cl.diags)
    ELSE Step([n EXCEPT !.classes = Append(@, [cl.scope EXCEPT !.include = c.loc.str])],
              cl.diags)

\* main.rs:209-216: cns is what parse_namespace gave
AddNamespace(n, cns) ==
    IF cns.panic THEN Panic(n, cns.diags)
    ELSE IF cns.v = None THEN Step(n, cns.diags)
    ELSE Step([n EXCEPT !.namespaces = MergeInto(@, cns.v[1])], cns.diags)

RECURSIVE parse_namespace(_), VisitChildren(_, _, _)

\* the closure of main.rs:146-222 on one child
VisitChild(n, c) ==
    IF Filtered(c) THEN Step(n, <<>>)
    ELSE
    CASE c.kind = "VarDecl" ->
            IF c.ty.is_const THEN ConstVar(n, c)
            ELSE IF c.storage = "Extern" THEN AddGlobal(n, c, parse_type(c.ty))
            ELSE Step(n, <<>>)
      [] c.kind = "EnumDecl" -> AddEnum(n, parse_enum(c))
      [] c.kind \in {"TypeAliasDecl", "TypedefDecl"} -> AddAlias(n, parse_alias(c))
      [] c.kind = "ClassDecl" -> AddClass(n, c, parse_class(c))
      [] c.kind = "FunctionDecl" -> AddFunction(n, parse_function(c), "functions")
      [] c.kind = "Namespace" -> AddNamespace(n, parse_namespace(c))
      [] OTHER -> Step(n, <<>>)

\* visit_children: the closure on each child in order, until one panics
NextChild(r, cs, diags) ==
    IF r.panic THEN Panic(r.scope, diags \o r.diags)
    ELSE VisitChildren(r.scope, cs, diags \o r.diags)

VisitChildren(n, cs, diags) ==
    IF cs = <<>> THEN Step(n, diags)
    ELSE NextChild(VisitChild(n, Head(cs)), Tail(cs), diags)

\* main.rs:224
Walked(r) == IF r.panic THEN OptPanic(r.diags) ELSE Opt(Some(r.scope), r.diags)

parse_namespace(e) ==
    IF e.name = NoName THEN Opt(None, <<>>)
    ELSE Walked(VisitChildren(Namespace(e.name), e.children, <<>>))

----------------------------------------------------------------------------
(* The declarations the walks are run on *)

TInt == Ty("Int", FALSE)
TIgnored == Ty("Unexposed", FALSE)
TUnsupported == Ty("Int128", FALSE)
\* a class of an anonymous namespace
THidden == DeclTy("Record", FALSE, "Hidden", InAnon)
TVectorOfUnsupported == TemplTy("Vector", Global, <<Some(TUnsupported)>>)

\* an initializer or default-value expression
Expr(t, ev) == [Entity("Expr", NoName) EXCEPT !.ty = t, !.eval = ev]
Var(name, t, init) == [Entity("VarDecl", name) EXCEPT !.ty = t, !.children = init]
ExternVar(name, t) == [Entity("VarDecl", name) EXCEPT !.ty = t, !.storage = "Extern"]
Field(name, t, access) == [Entity("FieldDecl", name) EXCEPT !.ty = t, !.access = access]
Variant(name, v) == [Entity("EnumConstantDecl", name) EXCEPT !.value = v]
EnumDecl(name, u, vs) == [Entity("EnumDecl", name) EXCEPT !.underlying = u, !.children = vs]
Typedef(name, u) == [Entity("TypedefDecl", name) EXCEPT !.underlying = u]
Parm(name, t) == [Entity("ParmDecl", name) EXCEPT !.ty = t]
ParmDefault(name, t, d) == [Entity("ParmDecl", name) EXCEPT !.ty = t, !.children = <<d>>]
Func(name, ps, ret) ==
    [Entity("FunctionDecl", name) EXCEPT !.args = Some(ps), !.result = ret]
Method(name, ps, ret, access) ==
    [Entity("Method", name) EXCEPT !.args = Some(ps), !.result = ret, !.access = access]
ClassDecl(name, cs) == [Entity("ClassDecl", name) EXCEPT !.children = cs]
NamespaceDecl(name, cs) == [Entity("Namespace", name) EXCEPT !.children = cs]

Five == Expr(TInt, EvInteger(5))
ConstK == Var("K", Ty("Int", TRUE), <<Five>>)
FuncF == Func("f", <<>>, Ty("Void", FALSE))
FuncFInt == Func("f", <<ParmDefault("x", TInt, Expr(TInt, EvInteger(3)))>>, TInt)

ConstVars ==
    {ConstK,
     \* const auto K2 = 5: the declared type is Ignored, the initializer's resolves
     Var("K2", Ty("Auto", TRUE), <<Five>>),
     \* evaluable (a string), and neither type resolves
     Var("S", Ty("Auto", TRUE), <<Expr(TIgnored, EvString("s"))>>),
     Var("S2", Ty("Int128", TRUE), <<Expr(TUnsupported, EvString("s"))>>),
     \* not evaluable
     Var("W", Ty("Int128", TRUE), <<Expr(TUnsupported, EvInteger(5))>>),
     Var("D", Ty("Double", TRUE), <<Expr(Ty("Float", FALSE), EvFloat("1.5"))>>),
     Var("U", Ty("UInt", TRUE), <<Expr(Ty("UInt", FALSE), EvInteger(-1))>>),
     \* evaluates to something that is no integer, float or string
     Var("O", Ty("Int", TRUE), <<Expr(TInt, EvOther)>>),
     Var("Z", Ty("Int", TRUE), <<>>)}

ExternVars ==
    {ExternVar("g", TInt), ExternVar("g", TUnsupported), ExternVar("g", TIgnored),
     ExternVar("g", THidden), Var("local", TInt, <<>>)}

EnumDecls ==
    {EnumDecl("E", TInt, <<Variant("A", 0), Variant("B", -1)>>),
     EnumDecl(NoName, Ty("UInt", FALSE), <<Variant("X", 1), Variant("Y", 2)>>),
     EnumDecl(NoName, TInt, <<>>),
     \* enum : bool
     EnumDecl(NoName, Ty("Bool", FALSE), <<Variant("T", 1)>>),
     \* enum : char16_t
     EnumDecl("E16", Ty("Char16", FALSE), <<>>)}

Typedefs ==
    {Typedef("A", TInt), Typedef("A", TUnsupported), Typedef("A", TIgnored),
     [Typedef("A", TVectorOfUnsupported) EXCEPT !.kind = "TypeAliasDecl"]}

Funcs ==
    {FuncF, FuncFInt,
     Func("h", <<Parm("a", TUnsupported)>>, Ty("Void", FALSE)),
     Func("h", <<Parm("a", TIgnored)>>, Ty("Void", FALSE)),
     Func("h", <<Parm("a", TIgnored), Parm("b", TUnsupported)>>, TInt),
     Func("h", <<Parm(NoName, TInt), Parm("b", TVectorOfUnsupported)>>, TInt),
     Func("h", <<Parm("a", TUnsupported), Parm("b", TUnsupported)>>, TInt),
     Func("r", <<Parm("a", TInt)>>, TUnsupported),
     Func("r", <<>>, TIgnored),
     [Entity("FunctionDecl", "v") EXCEPT !.result = TInt]}

Members ==
    {Field("x", TInt, "Public"),
     [Field("y", TInt, "Protected") EXCEPT !.kind = "VarDecl", !.storage = "Static"],
     Field("p", TInt, "Private"),
     Field("u", TUnsupported, "Public"),
     Field("i", TIgnored, "Public"),
     Field("hidden", THidden, "Protected"),
     [ConstK EXCEPT !.kind = "FieldDecl"],
     Field("S", Ty("Auto", TRUE), "Public"),
     [Var("S", Ty("Auto", TRUE), <<Expr(TIgnored, EvString("s"))>>) EXCEPT !.access = "Protected"],
     EnumDecl("E", TInt, <<Variant("A", 0), Variant("B", -1)>>),
     EnumDecl(NoName, Ty("UInt", FALSE), <<Variant("X", 1), Variant("Y", 2)>>),
     [EnumDecl(NoName, TInt, <<Variant("P", 7)>>) EXCEPT !.access = "Private"],
     Typedef("A", TInt), Typedef("A", TUnsupported),
     [Method("m", <<>>, TInt, "Public") EXCEPT !.virtual = TRUE, !.const_method = TRUE],
     [Method("m", <<Parm("a", TInt)>>, Ty("Void", FALSE), "Protected") EXCEPT !.static = TRUE],
     Method("m", <<Parm("a", TUnsupported)>>, Ty("Void", FALSE), "Public"),
     Method("m", <<Parm("a", TIgnored)>>, Ty("Void", FALSE), "Public"),
     Method("m", <<>>, TUnsupported, "Public"),
     Method("secret", <<Parm("a", TUnsupported)>>, Ty("Void", FALSE), "Private"),
     [Entity("Constructor", "C") EXCEPT !.args = Some(<<>>)]}

ClassC ==
    ClassDecl("C", <<Field("x", TInt, "Public"),
                     Method("m", <<Parm("a", TUnsupported)>>, Ty("Void", FALSE), "Public"),
                     EnumDecl(NoName, TInt, <<Variant("P", 7)>>),
                     Field("p", TInt, "Private")>>)

NamespaceN == NamespaceDecl("N", <<ConstK>>)
NamespaceNF == NamespaceDecl("N", <<ConstK, FuncF>>)

Children ==
    ConstVars \cup ExternVars \cup EnumDecls \cup Typedefs \cup Funcs
    \cup {ClassC, ClassDecl("C", <<>>), NamespaceN, NamespaceNF,
          NamespaceDecl("N", <<FuncF, FuncFInt, Var("S", Ty("Auto", TRUE), <<Expr(TIgnored, EvString("s"))>>)>>),
          NamespaceDecl(NoName, <<ConstK>>),
          [FuncF EXCEPT !.sys = TRUE], [FuncF EXCEPT !.loc = CppFile],
          [ConstK EXCEPT !.loc = Vendored],
          Entity("UsingDirective", NoName)}

----------------------------------------------------------------------------
(* The input files of main *)

File(name, cs) == [Entity("TranslationUnit", name) EXCEPT !.children = cs]

ConstInt(name, v) == Var(name, Ty("Int", TRUE), <<Expr(TInt, EvInteger(v))>>)

FileA == File("a.h", <<ConstInt("X", 1)>>)
FileB == File("b.h", <<ConstInt("X", 2), ConstInt("Y", 3)>>)
FileN == File("n.h", <<NamespaceN>>)
FileNF == File("nf.h", <<NamespaceNF>>)

TranslationUnits ==
    {FileA, FileB, FileN, FileNF,
     \* overloads, at the root and in a namespace
     File("over.h", <<FuncF, FuncFInt, NamespaceDecl("N", <<FuncFInt, FuncF>>)>>),
     \* one entry of each category
     File("all.h", <<ExternVar("g", TInt), EnumDecl("E", TInt, <<Variant("A", 0)>>),
                     Typedef("A", TInt), ClassC, FuncF, ConstK>>),
     \* the same names with other contents; a class declared and then defined
     File("all2.h", <<ExternVar("g", Ty("UInt", FALSE)), EnumDecl("E", TInt, <<Variant("B", 1)>>),
                      Typedef("A", Ty("UInt", FALSE)), ClassDecl("C", <<>>), ClassC,
                      FuncFInt, ConstInt("K", 6)>>),
     \* a namespace reopened, and nested namespaces
     File("deep.h", <<NamespaceN,
                      NamespaceDecl("N", <<FuncF, NamespaceDecl("M", <<ConstInt("X", 1)>>)>>)>>),
     File("deep2.h", <<NamespaceDecl("N", <<NamespaceDecl("M", <<ConstInt("X", 2), ConstInt("Y", 3)>>),
                                           ConstInt("K", 6)>>)>>),
     \* a constant neither of whose types resolves
     File("s.h", <<ConstK, Var("S", Ty("Auto", TRUE), <<Expr(TIgnored, EvString("s"))>>)>>),
     File("empty.h", <<>>)}

----------------------------------------------------------------------------
(* The resolver run on one type *)

NoScope == [name |-> NoName]
NoLast == [n |-> 0]

InitType ==
    /\ pc = "resolve"
    /\ ty_in \in Types
    /\ ty_out = PanicT(<<>>)
    /\ scope = NoScope /\ last = NoLast /\ stderr = <<>>
    /\ tus = <<>> /\ api = NoScope /\ merged = 0

ResolveType ==
    /\ pc = "resolve"
    /\ ty_out' = parse_type(ty_in)
    /\ stderr' = stderr \o ty_out'.diags
    /\ pc' = IF ty_out'.tag = "Panic" THEN "panic" ELSE "resolved"
    /\ UNCHANGED <<ty_in, scope, last, tus, api, merged>>

NextType == ResolveType

SpecType == InitType /\ [][NextType]_vars

----------------------------------------------------------------------------
(* Claims about the type resolver, checked under SpecType *)

Resolved == pc = "resolved"

\* C8: whenever parse_type fails with Ignored, a type of an anonymous
\* namespace included, it has written no line to stderr; whenever it fails
\* with Unsupported, it has written one.
C8_TwoTierSignalling ==
    Resolved /\ ty_out.tag = "Err" =>
        /\ ty_out.err = "Ignored" => ty_out.diags = <<>>
        /\ ty_out.err = "Unsupported" => ty_out.diags # <<>>

\* the TypeNames that stand for a type that is no pointer
PlainNames ==
    {PrimitiveName(k) : k \in PrimitiveKinds} \cup {"Void", "TypeName", "Class"}

\* the name T resolves to under a pointer
NameUnderPointer(b) == parse_type(Wrap("Pointer", FALSE, b))

\* C10: a pointer to a pointer to T resolves, when T does, to a TypeRef with
\* semantic PointerToPointer, the name of T and the constness of T; a type
\* of three or more pointer levels resolves to no TypeRef at all, and no
\* TypeRef holds a pointer as its name.
C10_PointerToPointer ==
    Resolved =>
        /\ PointerLevels(ty_in) = 2 =>
              /\ ty_out.tag = NameUnderPointer(PointerBase(ty_in)).tag
              /\ ty_out.tag = "Ok" =>
                    /\ ty_out.ty.semantic = Semantic("PointerToPointer")
                    /\ ty_out.ty.name = NameUnderPointer(PointerBase(ty_in)).ty.name
                    /\ ty_out.ty.name.tag \in PlainNames
                    /\ ty_out.ty.is_const = PointerBase(ty_in).is_const
        /\ PointerLevels(ty_in) >= 3 => ty_out.tag = "Err"
        /\ ty_out.tag = "Ok" => ty_out.ty.name.tag \in PlainNames

\* a const int ** (the pointers themselves not const) has been resolved
C10_Witness ==
    /\ Resolved
    /\ PointerLevels(ty_in) = 2
    /\ PointerBase(ty_in) = Ty("Int", TRUE)
    /\ ~ty_in.is_const
    /\ ty_out = OkT(TypeRef(TypeName("Int"), Semantic("PointerToPointer"), TRUE), <<>>)

----------------------------------------------------------------------------
(* One walk: visit_children of a namespace or of a class, child by child *)

InitWalk ==
    /\ \/ pc = "namespace" /\ scope = Namespace("tu.h")
       \/ pc = "class" /\ scope = Class("C")
    /\ last = NoLast /\ stderr = <<>>
    /\ ty_in = Ty("Invalid", FALSE) /\ ty_out = PanicT(<<>>)
    /\ tus = <<>> /\ api = NoScope /\ merged = 0

\* the visit of child c gave r
Visit(c, r) ==
    /\ scope' = r.scope
    /\ last' = [n |-> last.n + 1, walk |-> pc, e |-> c, before |-> scope,
                diags |-> r.diags, panic |-> r.panic]
    /\ stderr' = stderr \o r.diags
    /\ pc' = IF r.panic THEN "panic" ELSE pc

\* parse_namespace's closure, main.rs:146-222, on the next child
VisitNamespaceChild ==
    /\ pc = "namespace"
    /\ last.n < MaxChildren
    /\ \E c \in Children : Visit(c, VisitChild(scope, c))
    /\ UNCHANGED <<ty_in, ty_out, tus, api, merged>>

\* parse_class's closure, main.rs:329-392, on the next child
VisitClassMember ==
    /\ pc = "class"
    /\ last.n < MaxChildren
    /\ \E c \in Members : Visit(c, VisitMember(scope, c))
    /\ UNCHANGED <<ty_in, ty_out, tus, api, merged>>

NextWalk == VisitNamespaceChild \/ VisitClassMember

SpecWalk == InitWalk /\ [][NextWalk]_vars

----------------------------------------------------------------------------
(* Claims about the walker, checked under SpecWalk *)

\* a child has been visited and was not skipped before the dispatch on its
\* kind (main.rs:147-153, 330-333)
Dispatched ==
    /\ last.n > 0
    /\ last.walk = "namespace" => ~Filtered(last.e)
    /\ last.walk = "class" => last.e.access \in {"Public", "Protected"}

TypeFails(t) == parse_type(t).tag = "Err"
TypeUnsupported(t) == parse_type(t).tag = "Err" /\ parse_type(t).err = "Unsupported"

\* the child is a function (namespace scope) or a method (class scope)
FunctionVisited ==
    /\ Dispatched
    /\ \/ last.walk = "namespace" /\ last.e.kind = "FunctionDecl"
       \/ last.walk = "class" /\ last.e.kind = "Method"

\* the child is a variable or a field
VariableVisited ==
    /\ Dispatched
    /\ \/ last.walk = "namespace" /\ last.e.kind = "VarDecl"
       \/ last.walk = "class" /\ last.e.kind \in {"FieldDecl", "VarDecl"}

\* type resolution fails for the declaration just visited: a parameter, the
\* return type, a field, an extern global, a type alias, or a const variable
\* with an evaluable initializer neither of whose types resolves
ResolutionFails ==
    \/ /\ FunctionVisited
       /\ \/ \E i \in DOMAIN Arguments(last.e) : TypeFails(Arguments(last.e)[i].ty)
          \/ last.e.result.kind # "Void" /\ TypeFails(last.e.result)
    \/ /\ VariableVisited
       /\ IF last.e.ty.is_const
          THEN /\ ChildValue(last.e).v # None
               /\ TypeFails(last.e.ty)
               /\ TypeFails(last.e.children[1].ty)
          ELSE /\ last.walk = "namespace" => last.e.storage = "Extern"
               /\ TypeFails(last.e.ty)
    \/ /\ Dispatched
       /\ last.e.kind \in {"TypeAliasDecl", "TypedefDecl"}
       /\ TypeFails(last.e.underlying)

\* C6: when type resolution fails for a declaration the walker visits, the
\* walk does not abort and only that declaration is omitted: the scope is as
\* it was before the visit.
C6_BoundedBlastRadius ==
    ResolutionFails => ~last.panic /\ pc # "panic" /\ scope = last.before

UnsupportedParam ==
    /\ FunctionVisited
    /\ \E i \in DOMAIN Arguments(last.e) : TypeUnsupported(Arguments(last.e)[i].ty)

\* the first parameter that fails to resolve is Unsupported
FirstFailureUnsupported ==
    \E i \in DOMAIN Arguments(last.e) :
        /\ TypeUnsupported(Arguments(last.e)[i].ty)
        /\ \A j \in 1..(i - 1) : ~TypeFails(Arguments(last.e)[j].ty)

Count(diags, line) == Cardinality({i \in DOMAIN diags : diags[i] = line})

EnumVisited == Dispatched /\ last.e.kind = "EnumDecl" /\ ~last.panic

Signed(u) == u.name.tag \in SignedNames

\* C9: an unnamed enum (name "const") adds no Enum and one Const per variant,
\* in variant order, with the variant's name and value and the enum's
\* underlying type; any other enum adds one Enum and no Const.
C9_UnnamedEnum ==
    EnumVisited =>
        LET e == last.e
            k == Len(last.before.consts)
            u == parse_type(e.underlying).ty
        IN
        IF e.name = NoName
        THEN /\ scope.enums = last.before.enums
             /\ Len(scope.consts) = k + Len(e.children)
             /\ \A i \in 1..k : scope.consts[i] = last.before.consts[i]
             /\ \A i \in DOMAIN e.children :
                   scope.consts[k + i] =
                       [ty |-> u, name |-> e.children[i].name,
                        value |-> Value(IF Signed(u) THEN "Int" ELSE "UInt", e.children[i].value)]
        ELSE /\ scope.consts = last.before.consts
             /\ Len(scope.enums) = Len(last.before.enums) + 1
             /\ \A i \in DOMAIN last.before.enums : scope.enums[i] = last.before.enums[i]
             /\ scope.enums[Len(scope.enums)].name = e.name
             /\ scope.enums[Len(scope.enums)].underlying = u
             /\ Len(scope.enums[Len(scope.enums)].variants) = Len(e.children)

\* an unnamed enum of two variants has been visited in a class that held a
\* Const already
C9_Witness ==
    /\ EnumVisited
    /\ last.walk = "class"
    /\ last.e.name = NoName
    /\ Len(last.e.children) = 2
    /\ Len(last.before.consts) = 1
    /\ Len(scope.consts) = 3
    /\ scope.enums = <<>>

----------------------------------------------------------------------------
(* main, main.rs:86-116 *)

Init ==
    /\ pc = "parse"
    /\ api = Namespace("")
    /\ tus = <<>> /\ merged = 0
    /\ stderr = <<>> /\ last = NoLast
    /\ ty_in = Ty("Invalid", FALSE) /\ ty_out = PanicT(<<>>) /\ scope = NoScope

\* main.rs:108-110: r is what parse_namespace gave for the file
Parsed(r) ==
    /\ stderr' = stderr \o r.diags
    /\ pc' = IF r.panic THEN "panic" ELSE pc
    /\ tus' = IF r.panic \/ r.v = None THEN tus ELSE Append(tus, r.v[1])

\* main.rs:98-111, one file: parse_namespace of its translation unit
ParseFile ==
    /\ pc = "parse"
    /\ Len(tus) < MaxFiles
    /\ \E file \in TranslationUnits : Parsed(parse_namespace(file))
    /\ UNCHANGED <<api, merged, last, ty_in, ty_out, scope>>

\* the files have all been parsed
EndParse ==
    /\ pc = "parse"
    /\ pc' = "merge"
    /\ UNCHANGED <<api, tus, merged, stderr, last, ty_in, ty_out, scope>>

\* main.rs:114-116, one turn of the loop
MergeTu ==
    /\ pc = "merge"
    /\ merged < Len(tus)
    /\ api' = merge_namespace(api, tus[merged + 1])
    /\ merged' = merged + 1
    /\ last' = [n |-> merged + 1, before |-> api, src |-> tus[merged + 1]]
    /\ UNCHANGED <<pc, tus, stderr, ty_in, ty_out, scope>>

\* main.rs:118-124: the unified tree is written out
Output ==
    /\ pc = "merge"
    /\ merged = Len(tus)
    /\ pc' = "done"
    /\ UNCHANGED <<api, tus, merged, stderr, last, ty_in, ty_out, scope>>

Next == ParseFile \/ EndParse \/ MergeTu \/ Output

Spec == Init /\ [][Next]_vars

----------------------------------------------------------------------------
(* Claims about the merger and the driver, checked under Spec *)

Categories == {"consts", "globals", "enums", "aliases", "classes", "functions"}
Collections == Categories \cup {"namespaces"}

\* a merge_namespace(api, tu) has run: last.before is api before it,
\* last.src is tu
Merged == last.n > 0

\* the entries of s that first-seen-wins lets through: no entry of d has the
\* name, and no earlier entry of s
Kept(d, s) ==
    {i \in DOMAIN s : /\ \A k \in DOMAIN d : d[k].name # s[i].name
                      /\ \A j \in 1..(i - 1) : s[j].name # s[i].name}

\* out is d, entry for entry, followed by the kept entries of s in order
FirstSeenWins(d, s, out) ==
    /\ Len(out) = Len(d) + Cardinality(Kept(d, s))
    /\ \A i \in DOMAIN d : out[i] = d[i]
    /\ \A i \in Kept(d, s) : out[Len(d) + Cardinality({j \in Kept(d, s) : j <= i})] = s[i]

\* C1: merge_namespace(dst, src) is first-seen-wins in each category: every
\* entry of dst stays, unchanged and at its position, and an entry of src is
\* appended only if no entry of that category in dst has its name; so also
\* in the merge of a nested namespace into the one of its name.
C1_FirstSeenWins ==
    Merged =>
        /\ \A cat \in Categories : FirstSeenWins(last.before[cat], last.src[cat], api[cat])
        /\ \A i \in DOMAIN last.before.namespaces : \A j \in DOMAIN last.src.namespaces :
              last.before.namespaces[i].name = last.src.namespaces[j].name =>
                  \A cat \in Categories :
                      FirstSeenWins(last.before.namespaces[i][cat], last.src.namespaces[j][cat],
                                    api.namespaces[i][cat])

\* B = {X=2, Y=3} has been merged into A = {X=1}, leaving {X=1, Y=3}
C1_Witness ==
    /\ Merged
    /\ Len(last.before.consts) = 1
    /\ last.before.consts[1].name = "X" /\ last.before.consts[1].value = Value("Int", 1)
    /\ Len(last.src.consts) = 2
    /\ last.src.consts[1].name = "X" /\ last.src.consts[1].value = Value("Int", 2)
    /\ last.src.consts[2].name = "Y" /\ last.src.consts[2].value = Value("Int", 3)
    /\ api.consts = <<last.before.consts[1], last.src.consts[2]>>

Empty(n) == \A c \in Collections : n[c] = <<>>

\* C2: merging a tree of the walker into an empty Namespace gives a tree
\* equal to it over all collections, also when the tree holds several entries
\* of one name in a category.
C2_RoundTrip ==
    Merged /\ Empty(last.before) => \A c \in Collections : api[c] = last.src[c]

\* C3: merging a copy of a tree into it leaves it unchanged, and merging a
\* source a second time changes nothing.
C3_Idempotent ==
    /\ \A i \in DOMAIN tus : merge_namespace(tus[i], tus[i]) = tus[i]
    /\ merge_namespace(api, api) = api
    /\ Merged => merge_namespace(api, last.src) = api

\* two trees have been merged, and the unified tree has functions and a
\* namespace within a namespace
C3_Witness ==
    /\ merged = 2
    /\ api.functions # <<>>
    /\ api.namespaces # <<>>
    /\ api.namespaces[1].namespaces # <<>>
    /\ Len(api.namespaces[1].namespaces[1].consts) = 2

RECURSIVE UniqueNames(_)
UniqueNames(n) ==
    /\ \A c \in Collections : \A i, j \in DOMAIN n[c] : i # j => n[c][i].name # n[c][j].name
    /\ \A i \in DOMAIN n.namespaces : UniqueNames(n.namespaces[i])

\* C4: in every Namespace the walker gives and in every Namespace of the
\* unified tree, at every depth, no two entries of a category have one name.
C4_UniqueNames ==
    /\ \A i \in DOMAIN tus : UniqueNames(tus[i])
    /\ UniqueNames(api)

\* the files parsed and merged are n.h (namespace N { const int K = 5; })
\* and nf.h (namespace N { const int K = 5; void f(); }), in either order
TwoFiles ==
    /\ pc = "done"
    /\ merged = 2
    /\ \/ tus[1].name = "n.h" /\ tus[2].name = "nf.h"
       \/ tus[1].name = "nf.h" /\ tus[2].name = "n.h"

\* C5: after both files the root has exactly one namespace N, and N has
\* exactly one const K = 5 and exactly one function f.
C5_EndToEnd ==
    TwoFiles =>
        /\ Len(api.namespaces) = 1
        /\ api.namespaces[1].name = "N"
        /\ Len(api.namespaces[1].consts) = 1
        /\ api.namespaces[1].consts[1].name = "K"
        /\ api.namespaces[1].consts[1].value = Value("Int", 5)
        /\ Len(api.namespaces[1].functions) = 1
        /\ api.namespaces[1].functions[1].name = "f"
        /\ api.namespaces[1].namespaces = <<>>
        /\ \A cat \in Categories : api[cat] = <<>>

\* nf.h was processed first, then n.h
C5_Witness ==
    /\ TwoFiles
    /\ tus[1].name = "nf.h"
    /\ tus[1].namespaces[1].functions # <<>>
    /\ tus[2].namespaces[1].functions = <<>>

====
